---- MODULE Spec2Model ----
(***************************************************************************)
(* Packaging engine of the Node.js function bundler: createDirectory and   *)
(* createZipArchive (zipNodeJs), with the helpers they call.               *)
(*                                                                         *)
(* A path is a sequence of segments: "/base/lib.js" is <<"base","lib.js">>.*)
(* A map (aliases, rewrites) is a function whose DOMAIN is its key set.    *)
(* The symlinks Map, whose iteration order is its insertion order, is a    *)
(* sequence of <<target, path, srcFile>> entries; srcFile is not in the    *)
(* program's Map: it records which source file set the entry.              *)
(***************************************************************************)
EXTENDS Integers, Sequences, FiniteSets, TLC

\* Longest srcFiles list of a request.
MaxSrc == 2

\* The longest srcFiles list of the archive-only specification.
MaxDup == 3

\* os.cpus().length of the machine the build runs on.
NumCpus == 1

\* Lines 35-36: twice the CPU count, 2 when no CPU is reported.
CopyFileConcurrency(cpus) == IF cpus = 0 THEN 2 ELSE cpus * 2

COPY_FILE_CONCURRENCY == CopyFileConcurrency(NumCpus)

\* The largest CPU count the pool size is computed for.
MaxCpus == 8

\* The longest srcFiles list of the directory-only specification.
MaxLinks == 3

\* The longest srcFiles list of the specification with fairness.
MaxFair == 2

DEFAULT_USER_SUBDIRECTORY == "src"

BOOTSTRAP_FILE_NAME == "___netlify-bootstrap.mjs"

ENTRY_FILE_NAME == "___netlify-entry-point.mjs"

TELEMETRY_FILE_NAME == "___netlify-telemetry.mjs"

(***************************************************************************)
(* The request fields that are the same in every request of the model.     *)
(***************************************************************************)
basePath == <<"base">>

\* basename(filename, extension) ++ extension for filename "func.js".
FunctionEntryName == "func.js"

\* getV2APIPath(): where the v2 functions API module is installed.
v2APIPath == <<"api", "bootstrap.mjs">>

(***************************************************************************)
(* The file system the build reads.                                        *)
(***************************************************************************)
FuncJs == <<"base", "func.js">>
LibJs == <<"base", "lib.js">>
EntryMjs == <<"base", ENTRY_FILE_NAME>>
Link1 == <<"base", "l1">>
Link2 == <<"base", "sub", "l2">>
ExtFunc == <<"ext", "func.js">>
Link3 == <<"base", "l3">>

SourcePaths == {FuncJs, LibJs, EntryMjs, Link1, Link2, ExtFunc}

NoPath == <<>>

\* stat.isSymbolicLink() of lstat(path)
isSymbolicLink(path) == path \in {Link1, Link2, ExtFunc, Link3}

\* readlink(path)
readLink(path) ==
    IF path \in {Link1, Link2} THEN LibJs
    ELSE IF path = ExtFunc THEN <<"ext", "real.js">>
    ELSE IF path = Link3 THEN <<"base", "other.js">>
    ELSE NoPath

(***************************************************************************)
(* Sequence helpers.                                                       *)
(***************************************************************************)
SeqsUpTo(S, n) == UNION {[1..k -> S] : k \in 0..n}

IsPrefix(p, s) == Len(p) <= Len(s) /\ SubSeq(s, 1, Len(p)) = p

Last(s) == s[Len(s)]

Range(s) == {s[i] : i \in 1..Len(s)}

RECURSIVE DedupKeepLast(_)
\* The last occurrence of every element kept, instead of the first.
DedupKeepLast(list) ==
    IF list = <<>> THEN <<>>
    ELSE IF Head(list) \in Range(Tail(list))
         THEN DedupKeepLast(Tail(list))
         ELSE <<Head(list)>> \o DedupKeepLast(Tail(list))

RECURSIVE Dedup(_)
\* [...new Set(list)]: the first occurrence of every element, in order.
Dedup(list) ==
    IF list = <<>> THEN <<>>
    ELSE LET init == Dedup(SubSeq(list, 1, Len(list) - 1))
             x == Last(list)
         IN IF x \in Range(init) THEN init ELSE Append(init, x)

Min(a, b) == IF a <= b THEN a ELSE b

\* map.get(key) || fallback
GetOr(map, key, fallback) ==
    IF key \in DOMAIN map /\ map[key] # NoPath THEN map[key] ELSE fallback

\* map.set(key, value)
MapSet(map, key, value) ==
    [k \in DOMAIN map \cup {key} |-> IF k = key THEN value ELSE map[k]]

EmptyMap == [k \in {} |-> NoPath]

(***************************************************************************)
(* Helpers whose code is imported by the packaging module.                 *)
(***************************************************************************)
\* normalize_path.js: strip the common prefix, or fall back to the base
\* name for a path outside it; then prepend the user namespace.
normalizeFilePath(commonPrefix, path, userNs) ==
    LET rel == IF IsPrefix(commonPrefix, path) /\ Len(path) > Len(commonPrefix)
               THEN SubSeq(path, Len(commonPrefix) + 1, Len(path))
               ELSE <<Last(path)>>
    IN IF userNs = "" THEN rel ELSE <<userNs>> \o rel

\* entry_file.js: the file name the entry synthesizer chooses.
getEntryFileName(flags, apiVersion) ==
    IF apiVersion = 2 \/ flags.zisi_unique_entry_file
    THEN ENTRY_FILE_NAME
    ELSE FunctionEntryName

\* entry_file.js: the file sits where the entry file is going to be.
isNamedLikeEntryFile(file, flags, apiVersion) ==
    normalizeFilePath(basePath, file, "") = <<getEntryFileName(flags, apiVersion)>>

\* entry_file.js: a supporting file (not the main file) has the entry's path.
conflictsWithEntryFile(files, flags, main, apiVersion) ==
    \E i \in 1..Len(files) :
        /\ files[i] # main
        /\ isNamedLikeEntryFile(files[i], flags, apiVersion)

(***************************************************************************)
(* What the artifact is made of: one record per write (directory mode) or  *)
(* per appended member (archive mode).                                     *)
(*   role   "entry" | "telemetry" | "src"                                  *)
(*   idx    position of the source file in the list walked (0: generated)  *)
(*   dest   path inside the artifact                                       *)
(*   kind   "content" (bytes from memory) | "file" (bytes of src on disk)  *)
(*          | "symlink"                                                    *)
(*   src    the source path ("file", "symlink", rewritten "content")       *)
(*   data   the bytes of a "content" item                                  *)
(*   target the link target of a "symlink" item                            *)
(***************************************************************************)
Item(role, idx, dest, kind, src, data, target) ==
    [role |-> role, idx |-> idx, dest |-> dest, kind |-> kind,
     src |-> src, data |-> data, target |-> target]

\* getEntryFile(...): the generated entry file.
EntryItem(flags, apiVersion) ==
    Item("entry", 0, <<getEntryFileName(flags, apiVersion)>>, "content",
         NoPath, "entry", NoPath)

\* getTelemetryFile(): the generated telemetry file.
TelemetryItem ==
    Item("telemetry", 0, <<TELEMETRY_FILE_NAME>>, "content", NoPath,
         "telemetry", NoPath)

VARIABLES
    archiveFormat,          \* "zip" | "none": the mode zipNodeJs dispatches on
    srcFiles,               \* the caller's srcFiles array
    aliases,                \* the caller's aliases Map
    rewrites,               \* the rewrites Map: source path -> content
    mainFile,
    runtimeAPIVersion,
    featureFlags,
    pc,                     \* where the invocation is
    hasEntryFileConflict,
    userNamespace,
    needsEntryFile,
    entryFilename,
    archive,                \* archive mode: the members appended, in order
    deduplicatedSrcFiles,
    statOrder,              \* archive mode: indexes whose lstat completed, in completion order
    folder,                 \* directory mode: the writes that completed
    pending,                \* directory mode: entry-file writes in flight
    started,                \* pMap: how many elements the mapper was started for
    inflight,               \* pMap: element index -> the operation it awaits
    symlinks,               \* directory mode: the symlinks Map
    linkList,               \* directory mode: [...symlinks.entries()]
    linkStarted,            \* second pMap: how many entries the mapper was started for
    linkInflight,           \* second pMap: entry index -> the operation it awaits
    statFailed,             \* archive mode: indexes whose lstat failed
    result,                 \* what the invocation returned, once it has
    failure,                \* the first operation that failed ("" while none has)
    fsOps,                  \* <<operation, source path>> for every file-system call on a source path
    lstatCache,             \* cache.lstatCache: the paths whose lstat is memoized
    original,               \* srcFiles and aliases as the caller built them
    prev                    \* conflict decision of the previous invocation

vars == <<archiveFormat, srcFiles, aliases, rewrites, mainFile, runtimeAPIVersion,
          featureFlags, pc, hasEntryFileConflict, userNamespace, needsEntryFile,
          entryFilename, archive, deduplicatedSrcFiles, statOrder, folder, pending,
          started, inflight, symlinks, linkList, linkStarted, linkInflight, statFailed,
          result, failure, fsOps, lstatCache, original, prev>>

request == <<srcFiles, aliases, rewrites, mainFile, runtimeAPIVersion, featureFlags,
             original>>

zipState == <<archive, deduplicatedSrcFiles, statOrder, statFailed>>

outcome == <<result, failure>>

fsState == <<fsOps, lstatCache>>

dirState == <<folder, pending, started, inflight, symlinks, linkList, linkStarted,
             linkInflight>>

NoInflight == [i \in {} |-> "none"]

NoResult == [returned |-> FALSE, entryFilename |-> ""]

\* A file left in the function folder by an earlier build.
StaleItem == Item("stale", 0, <<"stale.js">>, "file", NoPath, "", NoPath)

AliasChoices == {EmptyMap, [p \in {LibJs} |-> <<BOOTSTRAP_FILE_NAME>>]}

RewriteChoices == {[p \in {} |-> ""], [p \in {LibJs, Link1} |-> "rewritten"]}

FlagChoices == [zisi_unique_entry_file : BOOLEAN, zisi_add_instrumentation_loader : BOOLEAN]

Fresh ==
    /\ pc = "start"
    /\ hasEntryFileConflict = FALSE
    /\ userNamespace = ""
    /\ needsEntryFile = FALSE
    /\ entryFilename = ""
    /\ archive = <<>>
    /\ deduplicatedSrcFiles = <<>>
    /\ statOrder = <<>>
    /\ statFailed = {}
    /\ result = NoResult
    /\ failure = ""
    /\ fsOps = {}
    /\ lstatCache = {}
    /\ folder = {StaleItem}
    /\ pending = {}
    /\ started = 0
    /\ inflight = NoInflight
    /\ symlinks = <<>>
    /\ linkList = <<>>
    /\ linkStarted = 0
    /\ linkInflight = NoInflight

Init ==
    /\ archiveFormat \in {"zip", "none"}
    /\ srcFiles \in SeqsUpTo(SourcePaths, MaxSrc)
    /\ aliases \in AliasChoices
    /\ rewrites \in RewriteChoices
    /\ mainFile \in {FuncJs, LibJs}
    /\ runtimeAPIVersion \in {1, 2}
    /\ featureFlags \in FlagChoices
    /\ original = [srcFiles |-> srcFiles, aliases |-> aliases]
    /\ prev = [set |-> FALSE, conflict |-> FALSE, ns |-> ""]
    /\ Fresh

(***************************************************************************)
(* addBootstrapFile: push the v2 API module and alias it, in place.        *)
(***************************************************************************)
addBootstrapFileSrcFiles(files) == Append(files, v2APIPath)

addBootstrapFileAliases(al) == MapSet(al, v2APIPath, <<BOOTSTRAP_FILE_NAME>>)

(***************************************************************************)
(* createZipArchive                                                        *)
(***************************************************************************)
ZipHasEntryFileConflict(files, flags, main, apiVersion) ==
    conflictsWithEntryFile(files, flags, main, apiVersion)

\* The negation of the last test dropped.
ZipNeedsEntryFileWhenNamedLikeEntry(flags, apiVersion, conflict, main) ==
    \/ flags.zisi_unique_entry_file
    \/ apiVersion = 2
    \/ conflict
    \/ isNamedLikeEntryFile(main, flags, apiVersion)

ZipNeedsEntryFile(flags, apiVersion, conflict, main) ==
    \/ flags.zisi_unique_entry_file
    \/ apiVersion = 2
    \/ conflict
    \/ ~isNamedLikeEntryFile(main, flags, apiVersion)

ZipUserNamespace(conflict) == IF conflict THEN DEFAULT_USER_SUBDIRECTORY ELSE ""

\* zipJsFile: the member appended for one source file.
zipJsFile(al, rw, commonPrefix, srcFile, idx, userNs) ==
    LET destPath == GetOr(al, srcFile, srcFile)
        normalizedDestPath == normalizeFilePath(commonPrefix, destPath, userNs)
    IN IF srcFile \in DOMAIN rw
       THEN Item("src", idx, normalizedDestPath, "content", srcFile, rw[srcFile], NoPath)
       ELSE Item("src", idx, normalizedDestPath, "file", srcFile, "", NoPath)

\* The results pushed as each lstat settles.
ResultsInCompletionOrder(order, n) == order

\* Promise.all(promises): the results, by the position of their promise.
PromiseAllResults(order, n) == [i \in 1..n |-> i]

\* Resolved as soon as one promise is fulfilled.
PromiseAllResolvedOnFirst(order, n) == n = 0 \/ Len(order) >= 1

\* Promise.all(promises) resolves once every promise is fulfilled.
PromiseAllResolved(order, n) == Len(order) = n

\* The telemetry file appended before the entry file.
ZipGeneratedMembersTelemetryFirst(needs, flags, apiVersion) ==
    (IF flags.zisi_add_instrumentation_loader THEN <<TelemetryItem>> ELSE <<>>)
    \o (IF needs THEN <<EntryItem(flags, apiVersion)>> ELSE <<>>)

\* Lines 221-240: the members appended before any source file.
ZipGeneratedMembers(needs, flags, apiVersion) ==
    (IF needs THEN <<EntryItem(flags, apiVersion)>> ELSE <<>>)
    \o (IF flags.zisi_add_instrumentation_loader THEN <<TelemetryItem>> ELSE <<>>)

\* The last element left out.
ForEachSkippingLast(n) == IF n = 0 THEN 0 ELSE n - 1

\* srcFilesInfos.forEach: how many elements the callback is called for.
ForEachCount(n) == n

\* utils/fs.js cachedLstat: the call goes to the file system unless the
\* The rejection swallowed: the function goes on where it was.
RejectionSwallowed(at) == at

\* An awaited promise rejects (lines 112-121, 130, 166, 247, 263): the async
\* function rejects with it, whatever it was doing.
RejectionPropagates(at) == "rejected"

\* path is memoized.
cachedLstatCalls(cache, paths) == {<<"lstat", f>> : f \in paths \ cache}

\* The first failure is the one the invocation rejects with.
FirstFailure(op) == IF failure = "" THEN op ELSE failure

\* Lines 192-247, up to the await: every lstat is started at once.
ZipStart ==
    /\ pc = "start"
    /\ archiveFormat = "zip"
    /\ LET conflict == ZipHasEntryFileConflict(srcFiles, featureFlags, mainFile,
                                               runtimeAPIVersion)
           needs == ZipNeedsEntryFile(featureFlags, runtimeAPIVersion, conflict, mainFile)
           files == IF runtimeAPIVersion = 2
                    THEN addBootstrapFileSrcFiles(srcFiles)
                    ELSE srcFiles
       IN /\ hasEntryFileConflict' = conflict
          /\ needsEntryFile' = needs
          /\ userNamespace' = ZipUserNamespace(conflict)
          /\ entryFilename' = IF needs
                              THEN getEntryFileName(featureFlags, runtimeAPIVersion)
                              ELSE FunctionEntryName
          /\ archive' = ZipGeneratedMembers(needs, featureFlags, runtimeAPIVersion)
          /\ srcFiles' = files
          /\ aliases' = IF runtimeAPIVersion = 2
                        THEN addBootstrapFileAliases(aliases)
                        ELSE aliases
          /\ deduplicatedSrcFiles' = Dedup(files)
          /\ fsOps' = fsOps \cup cachedLstatCalls(lstatCache, Range(Dedup(files)))
    /\ statOrder' = <<>>
    /\ statFailed' = {}
    /\ pc' = "zip_stat"
    /\ UNCHANGED <<archiveFormat, rewrites, mainFile, runtimeAPIVersion, featureFlags,
                   original, dirState, outcome, lstatCache, prev>>

\* The lstat calls of addStat that have not settled.
StatInFlight ==
    {i \in 1..Len(deduplicatedSrcFiles) : i \notin Range(statOrder) \cup statFailed}

\* addStat: the lstat of one deduplicated source file completes. After a
\* rejection the other calls still settle; nothing awaits them.
ZipStatDone ==
    /\ pc \in {"zip_stat", "rejected"}
    /\ \E i \in StatInFlight :
        /\ statOrder' = Append(statOrder, i)
        /\ lstatCache' = lstatCache \cup {deduplicatedSrcFiles[i]}
    /\ UNCHANGED <<request, archiveFormat, pc, hasEntryFileConflict, userNamespace,
                   needsEntryFile, entryFilename, archive, deduplicatedSrcFiles,
                   statFailed, dirState, outcome, fsOps, prev>>

\* addStat: an lstat fails; Promise.all rejects and createZipArchive with it.
ZipStatFailed ==
    /\ pc = "zip_stat"
    /\ \E i \in StatInFlight : statFailed' = statFailed \cup {i}
    /\ pc' = RejectionPropagates(pc)
    /\ failure' = FirstFailure("lstat")
    /\ UNCHANGED <<request, archiveFormat, hasEntryFileConflict, userNamespace,
                   needsEntryFile, entryFilename, archive, deduplicatedSrcFiles,
                   statOrder, dirState, result, fsState, prev>>

\* Lines 247-263: Promise.all resolved; every member is appended, then endZip starts.
ZipAppendAll ==
    /\ pc = "zip_stat"
    /\ PromiseAllResolved(statOrder, Len(deduplicatedSrcFiles))
    /\ LET n == Len(deduplicatedSrcFiles)
           srcFilesInfos == PromiseAllResults(statOrder, n)
           members == [k \in 1..ForEachCount(Len(srcFilesInfos)) |->
                         zipJsFile(aliases, rewrites, basePath,
                                   deduplicatedSrcFiles[srcFilesInfos[k]],
                                   srcFilesInfos[k], userNamespace)]
       IN /\ archive' = archive \o members
          /\ fsOps' = fsOps \cup
                      {<<"read", members[k].src>> :
                          k \in {j \in 1..Len(members) : members[j].kind = "file"}}
    /\ pc' = "zip_end"
    /\ UNCHANGED <<request, archiveFormat, hasEntryFileConflict, userNamespace,
                   needsEntryFile, entryFilename, deduplicatedSrcFiles, statOrder,
                   statFailed, dirState, outcome, lstatCache, prev>>

\* Lines 263-265: endZip resolved; the result is returned.
ZipEnd ==
    /\ pc = "zip_end"
    /\ pc' = "done"
    /\ result' = [returned |-> TRUE, entryFilename |-> entryFilename]
    /\ UNCHANGED <<request, archiveFormat, hasEntryFileConflict, userNamespace,
                   needsEntryFile, entryFilename, zipState, dirState, failure,
                   fsState, prev>>

\* Line 263: endZip rejects.
ZipEndFailed ==
    /\ pc = "zip_end"
    /\ pc' = RejectionPropagates(pc)
    /\ failure' = FirstFailure("endZip")
    /\ UNCHANGED <<request, archiveFormat, hasEntryFileConflict, userNamespace,
                   needsEntryFile, entryFilename, zipState, dirState, result,
                   fsState, prev>>

(***************************************************************************)
(* pMap(list, mapper, { concurrency }): the mapper is started for the      *)
(* first `concurrency` elements; each mapper that resolves starts the next *)
(* element; the call resolves once every mapper has resolved.              *)
(***************************************************************************)
\* Every mapper started at once.
pMapUnbounded(n) == n

pMapFirst(n) == Min(COPY_FILE_CONCURRENCY, n)

\* Resolved as soon as the last mapper was started.
pMapResolvedWhenAllStarted(startedCount, inf, n) == startedCount = n

pMapResolved(startedCount, inf, n) == startedCount = n /\ DOMAIN inf = {}

Without(inf, i) == [k \in DOMAIN inf \ {i} |-> inf[k]]

(***************************************************************************)
(* createDirectory                                                         *)
(***************************************************************************)
DirHasEntryFileConflict(files, flags, main, apiVersion) ==
    conflictsWithEntryFile(files, flags, main, apiVersion)

\* The namespace left empty.
DirUserNamespaceAlwaysRoot(conflict) == ""

DirUserNamespace(conflict) == IF conflict THEN DEFAULT_USER_SUBDIRECTORY ELSE ""

\* The user namespace not passed on to normalizeFilePath.
DirDestPathWithoutNamespace(al, commonPrefix, srcFile, userNs) ==
    normalizeFilePath(commonPrefix, GetOr(al, srcFile, srcFile), "")

\* Lines 133-139: where a source file goes, below the function folder.
DirDestPath(al, commonPrefix, srcFile, userNs) ==
    normalizeFilePath(commonPrefix, GetOr(al, srcFile, srcFile), userNs)

\* The rewrites not consulted.
DirFirstOpIgnoringRewrites(rw, srcFile) == "lstat"

\* Lines 141-145: the first operation the mapper awaits for a source file.
DirFirstOp(rw, srcFile) == IF srcFile \in DOMAIN rw THEN "write" ELSE "lstat"

\* Lines 151-159: what follows the lstat.
DirAfterLstat(srcFile) == IF isSymbolicLink(srcFile) THEN "readlink" ELSE "copy"

\* symlinks.set(target, path): a Map keeps one entry per key, at the place
\* of the key's first insertion.
SymlinksSet(map, target, path, srcFile) ==
    IF \E k \in 1..Len(map) : map[k][1] = target
    THEN [k \in 1..Len(map) |->
            IF map[k][1] = target THEN <<target, path, srcFile>> ELSE map[k]]
    ELSE Append(map, <<target, path, srcFile>>)

\* The folder left as it was.
rmKeepingFiles(files) == files

\* rm(functionFolder, { recursive: true, force: true }): nothing is left.
rmRecursive(files) == {}

\* Line 168: symlink(target, path): what the new link points at.
SymlinkTarget(target, path) == target

\* Lines 86-112, up to the await of rm.
DirStart ==
    /\ pc = "start"
    /\ archiveFormat # "zip"
    /\ LET conflict == DirHasEntryFileConflict(srcFiles, featureFlags, mainFile,
                                               runtimeAPIVersion)
       IN /\ hasEntryFileConflict' = conflict
          /\ userNamespace' = DirUserNamespace(conflict)
    /\ entryFilename' = getEntryFileName(featureFlags, runtimeAPIVersion)
    /\ pc' = "rm"
    /\ UNCHANGED <<request, archiveFormat, needsEntryFile, zipState, dirState, outcome,
                   fsState, prev>>

\* Line 112: rm(functionFolder, { recursive, force }) resolved; mkdir starts.
DirRmDone ==
    /\ pc = "rm"
    /\ folder' = rmRecursive(folder)
    /\ pc' = "mkdir"
    /\ UNCHANGED <<request, archiveFormat, hasEntryFileConflict, userNamespace,
                   needsEntryFile, entryFilename, zipState, pending, started, inflight,
                   symlinks, linkList, linkStarted, linkInflight, outcome, fsState, prev>>

\* Lines 112-113: rm or mkdir rejects.
DirSetupFailed ==
    /\ pc \in {"rm", "mkdir"}
    /\ failure' = FirstFailure(pc)
    /\ pc' = RejectionPropagates(pc)
    /\ UNCHANGED <<request, archiveFormat, hasEntryFileConflict, userNamespace,
                   needsEntryFile, entryFilename, zipState, dirState, result, fsState,
                   prev>>

\* Lines 113-121: mkdir resolved; the entry-file writes start together.
DirMkdirDone ==
    /\ pc = "mkdir"
    /\ pending' = {"entry"} \cup
                  (IF featureFlags.zisi_add_instrumentation_loader
                   THEN {"telemetry"} ELSE {})
    /\ pc' = "entry"
    /\ UNCHANGED <<request, archiveFormat, hasEntryFileConflict, userNamespace,
                   needsEntryFile, entryFilename, zipState, folder, started, inflight,
                   symlinks, linkList, linkStarted, linkInflight, outcome, fsState, prev>>

\* Lines 117-119: one writeFile of the Promise.all resolves (also after the
\* other one failed: nothing cancels it).
DirEntryWriteDone ==
    /\ pc \in {"entry", "rejected"}
    /\ \E w \in pending :
        /\ pending' = pending \ {w}
        /\ folder' = folder \cup
                     {IF w = "entry"
                      THEN EntryItem(featureFlags, runtimeAPIVersion)
                      ELSE TelemetryItem}
    /\ UNCHANGED <<request, archiveFormat, pc, hasEntryFileConflict, userNamespace,
                   needsEntryFile, entryFilename, zipState, started, inflight,
                   symlinks, linkList, linkStarted, linkInflight, outcome, fsState, prev>>

\* Lines 116-121: one writeFile rejects; Promise.all rejects with it.
DirEntryWriteFailed ==
    /\ pc = "entry"
    /\ \E w \in pending :
        /\ pending' = pending \ {w}
        /\ failure' = FirstFailure(w)
    /\ pc' = RejectionPropagates(pc)
    /\ UNCHANGED <<request, archiveFormat, hasEntryFileConflict, userNamespace,
                   needsEntryFile, entryFilename, zipState, folder, started, inflight,
                   symlinks, linkList, linkStarted, linkInflight, result, fsState, prev>>

\* The file-system calls on source paths a mapper makes up to its first await.
MapperStartOps(cache, rw, srcFile) ==
    IF DirFirstOp(rw, srcFile) = "lstat" THEN cachedLstatCalls(cache, {srcFile}) ELSE {}

\* Lines 123-131: Promise.all resolved; the bootstrap file is added and
\* the first pMap starts its first mappers.
DirBeginCopy ==
    /\ pc = "entry"
    /\ pending = {}
    /\ LET files == IF runtimeAPIVersion = 2
                    THEN addBootstrapFileSrcFiles(srcFiles)
                    ELSE srcFiles
       IN /\ srcFiles' = files
          /\ started' = pMapFirst(Len(files))
          /\ inflight' = [i \in 1..pMapFirst(Len(files)) |-> DirFirstOp(rewrites, files[i])]
          /\ fsOps' = fsOps \cup
                      UNION {MapperStartOps(lstatCache, rewrites, files[i]) :
                                i \in 1..pMapFirst(Len(files))}
    /\ aliases' = IF runtimeAPIVersion = 2
                  THEN addBootstrapFileAliases(aliases)
                  ELSE aliases
    /\ symlinks' = <<>>
    /\ pc' = "copy"
    /\ UNCHANGED <<archiveFormat, rewrites, mainFile, runtimeAPIVersion, featureFlags,
                   original, hasEntryFileConflict, userNamespace, needsEntryFile, entryFilename,
                   zipState, folder, pending, linkList, linkStarted, linkInflight, outcome,
                   lstatCache, prev>>

\* next() never called when a mapper resolves.
CopyNeverStartsNext == FALSE

\* pMap starts the mapper of the next element when a mapper resolves, unless
\* the list is exhausted or a mapper has rejected.
CopyStartsNext == pc = "copy" /\ started < Len(srcFiles)

\* The mapper of element i resolved.
CopyMapperResolved(i) ==
    IF CopyStartsNext
    THEN /\ started' = started + 1
         /\ inflight' = [k \in (DOMAIN inflight \ {i}) \cup {started + 1} |->
                           IF k = started + 1
                           THEN DirFirstOp(rewrites, srcFiles[started + 1])
                           ELSE inflight[k]]
         /\ fsOps' = fsOps \cup MapperStartOps(lstatCache, rewrites, srcFiles[started + 1])
    ELSE /\ started' = started
         /\ inflight' = Without(inflight, i)
         /\ fsOps' = fsOps

\* Lines 132-160: the operation a mapper of the first pMap awaits resolves.
\* After a rejection the mappers in flight run on.
DirCopyOpDone ==
    /\ pc \in {"copy", "rejected"}
    /\ \E i \in DOMAIN inflight :
        LET srcFile == srcFiles[i]
            absoluteDestPath == DirDestPath(aliases, basePath, srcFile, userNamespace)
        IN CASE inflight[i] = "lstat" ->
                  /\ inflight' = [inflight EXCEPT ![i] = DirAfterLstat(srcFile)]
                  /\ lstatCache' = lstatCache \cup {srcFile}
                  /\ fsOps' = fsOps \cup {<<DirAfterLstat(srcFile), srcFile>>}
                  /\ UNCHANGED <<started, symlinks, folder>>
             [] inflight[i] = "readlink" ->
                  /\ symlinks' = SymlinksSet(symlinks, readLink(srcFile), absoluteDestPath,
                                          srcFile)
                  /\ CopyMapperResolved(i)
                  /\ UNCHANGED <<folder, lstatCache>>
             [] inflight[i] = "write" ->
                  /\ folder' = folder \cup
                       {Item("src", i, absoluteDestPath, "content", srcFile,
                             rewrites[srcFile], NoPath)}
                  /\ CopyMapperResolved(i)
                  /\ UNCHANGED <<symlinks, lstatCache>>
             [] inflight[i] = "copy" ->
                  /\ folder' = folder \cup
                       {Item("src", i, absoluteDestPath, "file", srcFile, "", NoPath)}
                  /\ CopyMapperResolved(i)
                  /\ UNCHANGED <<symlinks, lstatCache>>
    /\ UNCHANGED <<request, archiveFormat, pc, hasEntryFileConflict, userNamespace,
                   needsEntryFile, entryFilename, zipState, pending, linkList,
                   linkStarted, linkInflight, outcome, prev>>

\* Lines 132-160: lstat, readlink, copyFile or mkdirAndWriteFile rejects; the
\* mapper rejects and pMap with it.
DirCopyOpFailed ==
    /\ pc = "copy"
    /\ \E i \in DOMAIN inflight :
        /\ inflight' = Without(inflight, i)
        /\ failure' = FirstFailure(inflight[i])
    /\ pc' = RejectionPropagates(pc)
    /\ UNCHANGED <<request, archiveFormat, hasEntryFileConflict, userNamespace,
                   needsEntryFile, entryFilename, zipState, folder, pending, started,
                   symlinks, linkList, linkStarted, linkInflight, result, fsState, prev>>

\* Lines 164-166: the first pMap resolved; the second one starts its first mappers.
DirBeginLinks ==
    /\ pc = "copy"
    /\ pMapResolved(started, inflight, Len(srcFiles))
    /\ linkList' = symlinks
    /\ linkStarted' = pMapFirst(Len(symlinks))
    /\ linkInflight' = [j \in 1..pMapFirst(Len(symlinks)) |-> "mkdir"]
    /\ pc' = "link"
    /\ UNCHANGED <<request, archiveFormat, hasEntryFileConflict, userNamespace,
                   needsEntryFile, entryFilename, zipState, folder, pending, started,
                   inflight, symlinks, outcome, fsState, prev>>

\* The mapper of entry j resolved: pMap starts the mapper of the next entry.
LinkMapperResolved(j) ==
    IF pc = "link" /\ linkStarted < Len(linkList)
    THEN /\ linkStarted' = linkStarted + 1
         /\ linkInflight' = [k \in (DOMAIN linkInflight \ {j}) \cup {linkStarted + 1} |->
                               IF k = linkStarted + 1 THEN "mkdir" ELSE linkInflight[k]]
    ELSE /\ linkStarted' = linkStarted
         /\ linkInflight' = Without(linkInflight, j)

\* Lines 166-169: the operation a mapper of the second pMap awaits resolves.
\* symlink() onto a path that exists fails (EEXIST): pMap rejects, starts no
\* further mapper, and the mappers in flight run on.
DirLinkOpDone ==
    /\ pc \in {"link", "rejected"}
    /\ \E j \in DOMAIN linkInflight :
        LET target == linkList[j][1]
            path == linkList[j][2]
        IN CASE linkInflight[j] = "mkdir" ->
                  /\ linkInflight' = [linkInflight EXCEPT ![j] = "symlink"]
                  /\ UNCHANGED <<linkStarted, folder, pc, failure>>
             [] linkInflight[j] = "symlink" /\ (\E it \in folder : it.dest = path) ->
                  /\ linkInflight' = Without(linkInflight, j)
                  /\ pc' = RejectionPropagates(pc)
                  /\ failure' = FirstFailure("symlink")
                  /\ UNCHANGED <<linkStarted, folder>>
             [] linkInflight[j] = "symlink" /\ ~(\E it \in folder : it.dest = path) ->
                  /\ folder' = folder \cup
                       {Item("src", j, path, "symlink", linkList[j][3], "",
                             SymlinkTarget(target, path))}
                  /\ LinkMapperResolved(j)
                  /\ UNCHANGED <<pc, failure>>
    /\ UNCHANGED <<request, archiveFormat, hasEntryFileConflict, userNamespace,
                   needsEntryFile, entryFilename, zipState, pending, started, inflight,
                   symlinks, linkList, result, fsState, prev>>

\* Lines 166-169: mkdir or symlink rejects for another reason.
DirLinkOpFailed ==
    /\ pc = "link"
    /\ \E j \in DOMAIN linkInflight :
        /\ linkInflight' = Without(linkInflight, j)
        /\ failure' = FirstFailure(linkInflight[j])
    /\ pc' = RejectionPropagates(pc)
    /\ UNCHANGED <<request, archiveFormat, hasEntryFileConflict, userNamespace,
                   needsEntryFile, entryFilename, zipState, folder, pending, started,
                   inflight, symlinks, linkList, linkStarted, result, fsState, prev>>

\* Line 175: the second pMap resolved; the result is returned.
DirEnd ==
    /\ pc = "link"
    /\ pMapResolved(linkStarted, linkInflight, Len(linkList))
    /\ pc' = "done"
    /\ result' = [returned |-> TRUE, entryFilename |-> entryFilename]
    /\ UNCHANGED <<request, archiveFormat, hasEntryFileConflict, userNamespace,
                   needsEntryFile, entryFilename, zipState, dirState, failure, fsState,
                   prev>>

Next ==
    \/ ZipStart
    \/ ZipStatDone
    \/ ZipStatFailed
    \/ ZipAppendAll
    \/ ZipEnd
    \/ ZipEndFailed
    \/ DirStart
    \/ DirRmDone
    \/ DirSetupFailed
    \/ DirMkdirDone
    \/ DirEntryWriteDone
    \/ DirEntryWriteFailed
    \/ DirBeginCopy
    \/ DirCopyOpDone
    \/ DirCopyOpFailed
    \/ DirBeginLinks
    \/ DirLinkOpDone
    \/ DirLinkOpFailed
    \/ DirEnd

Spec == Init /\ [][Next]_vars

(***************************************************************************)
(* zipNodeJs called once more with a request equal to the one the caller   *)
(* built, in the other archive format, after the first call decided its    *)
(* conflict and namespace.                                                 *)
(***************************************************************************)
zipNodeJsOtherFormat ==
    /\ pc \in {"zip_stat", "rm"}
    /\ ~prev.set
    /\ prev' = [set |-> TRUE, conflict |-> hasEntryFileConflict, ns |-> userNamespace]
    /\ archiveFormat' = IF archiveFormat = "zip" THEN "none" ELSE "zip"
    /\ srcFiles' = original.srcFiles
    /\ aliases' = original.aliases
    /\ pc' = "start"
    /\ hasEntryFileConflict' = FALSE
    /\ userNamespace' = ""
    /\ needsEntryFile' = FALSE
    /\ entryFilename' = ""
    /\ archive' = <<>>
    /\ deduplicatedSrcFiles' = <<>>
    /\ statOrder' = <<>>
    /\ statFailed' = {}
    /\ fsOps' = {}
    /\ UNCHANGED <<rewrites, mainFile, runtimeAPIVersion, featureFlags, original,
                   dirState, outcome, lstatCache>>

NextParity ==
    \/ ZipStart
    \/ DirStart
    \/ zipNodeJsOtherFormat

SpecParity == Init /\ [][NextParity]_vars

(***************************************************************************)
(* createZipArchive alone, on longer srcFiles lists over fewer paths, so   *)
(* that a path occurs before and after another one.                        *)
(***************************************************************************)
InitArchive ==
    /\ archiveFormat = "zip"
    /\ srcFiles \in SeqsUpTo({FuncJs, LibJs, Link1}, MaxDup)
    /\ aliases = EmptyMap
    /\ rewrites \in RewriteChoices
    /\ mainFile = FuncJs
    /\ runtimeAPIVersion \in {1, 2}
    /\ featureFlags = [zisi_unique_entry_file |-> FALSE,
                       zisi_add_instrumentation_loader |-> TRUE]
    /\ original = [srcFiles |-> srcFiles, aliases |-> aliases]
    /\ prev = [set |-> FALSE, conflict |-> FALSE, ns |-> ""]
    /\ Fresh

NextArchive ==
    \/ ZipStart
    \/ ZipStatDone
    \/ ZipStatFailed
    \/ ZipAppendAll
    \/ ZipEnd
    \/ ZipEndFailed

SpecArchive == InitArchive /\ [][NextArchive]_vars

(***************************************************************************)
(* createDirectory alone, on lists of symbolic links with three different  *)
(* targets, so that the second pMap has more entries than the pool.        *)
(***************************************************************************)
InitDirectory ==
    /\ archiveFormat = "none"
    /\ srcFiles \in SeqsUpTo({Link1, ExtFunc, Link3}, MaxLinks)
    /\ aliases = EmptyMap
    /\ rewrites \in RewriteChoices
    /\ mainFile = FuncJs
    /\ runtimeAPIVersion = 1
    /\ featureFlags = [zisi_unique_entry_file |-> FALSE,
                       zisi_add_instrumentation_loader |-> TRUE]
    /\ original = [srcFiles |-> srcFiles, aliases |-> aliases]
    /\ prev = [set |-> FALSE, conflict |-> FALSE, ns |-> ""]
    /\ Fresh

NextDirectory ==
    \/ DirStart
    \/ DirRmDone
    \/ DirSetupFailed
    \/ DirMkdirDone
    \/ DirEntryWriteDone
    \/ DirEntryWriteFailed
    \/ DirBeginCopy
    \/ DirCopyOpDone
    \/ DirCopyOpFailed
    \/ DirBeginLinks
    \/ DirLinkOpDone
    \/ DirLinkOpFailed
    \/ DirEnd

SpecDirectory == InitDirectory /\ [][NextDirectory]_vars

(***************************************************************************)
(* Both builders under fairness: an operation in flight eventually         *)
(* completes or fails, and the event loop eventually runs a continuation   *)
(* that is ready. Nothing is ever disabled by another step except by the   *)
(* run moving on, so weak fairness of Next states both.                    *)
(***************************************************************************)
InitFair ==
    /\ archiveFormat \in {"zip", "none"}
    /\ srcFiles \in SeqsUpTo({LibJs, Link1, ExtFunc}, MaxFair)
    /\ aliases = EmptyMap
    /\ rewrites \in RewriteChoices
    /\ mainFile = FuncJs
    /\ runtimeAPIVersion \in {1, 2}
    /\ featureFlags = [zisi_unique_entry_file |-> FALSE,
                       zisi_add_instrumentation_loader |-> TRUE]
    /\ original = [srcFiles |-> srcFiles, aliases |-> aliases]
    /\ prev = [set |-> FALSE, conflict |-> FALSE, ns |-> ""]
    /\ Fresh

SpecFair == InitFair /\ [][Next]_vars /\ WF_vars(Next)

(***************************************************************************)
(* The artifact.                                                           *)
(***************************************************************************)
IsZip == archiveFormat = "zip"

\* The source-file members of the archive, in the order they were appended.
SrcMembers == SelectSeq(archive, LAMBDA m : m.role = "src")

\* Every item of the artifact: archive members or completed writes.
Members == IF IsZip THEN Range(archive) ELSE folder

\* How many items of the artifact satisfy Test.
Count(Test(_)) ==
    IF IsZip
    THEN Cardinality({k \in 1..Len(archive) : Test(archive[k])})
    ELSE Cardinality({it \in folder : Test(it)})

EntryAppended == \E k \in 1..Len(archive) : archive[k].role = "entry"

(***************************************************************************)
(* C1. Archive mode: the source-file members are appended in the order of  *)
(* the deduplicated srcFiles, whatever order the lstat calls complete in.  *)
(***************************************************************************)
C1_AppendOrderIsInputOrder ==
    (IsZip /\ pc \in {"zip_end", "done"}) =>
        [k \in 1..Len(SrcMembers) |-> SrcMembers[k].src] = Dedup(srcFiles)

\* An archive finished after its lstat calls completed out of input order.
C1_Witness ==
    /\ IsZip
    /\ pc = "done"
    /\ Len(statOrder) >= 2
    /\ statOrder[1] > statOrder[2]
    /\ Len(SrcMembers) >= 2

(***************************************************************************)
(* C2. In both modes no two distinct items of the artifact (entry file,    *)
(* telemetry file, bootstrap module, source files after alias and          *)
(* normalization) have the same destination path.                          *)
(***************************************************************************)
C2_DestinationsUnique ==
    /\ \A a, b \in folder : a # b => a.dest # b.dest
    /\ \A i, j \in 1..Len(archive) : i # j => archive[i].dest # archive[j].dest

(***************************************************************************)
(* C3. For the same request createDirectory and createZipArchive decide    *)
(* the same entry-file conflict and the same userNamespace.                *)
(***************************************************************************)
C3_ConflictParity ==
    (prev.set /\ pc # "start") =>
        /\ hasEntryFileConflict = prev.conflict
        /\ userNamespace = prev.ns
        /\ userNamespace = (IF hasEntryFileConflict THEN "src" ELSE "")

\* Both modes ran on a request with a conflict.
C3_Witness == prev.set /\ pc # "start" /\ prev.conflict /\ prev.ns = "src"

(***************************************************************************)
(* C4. Directory mode: when the build completes, every source file that is *)
(* a symbolic link and has no rewrite is a symbolic link at its own        *)
(* normalized destination path.                                            *)
(***************************************************************************)
C4_EverySymlinkRecreated ==
    (~IsZip /\ pc = "done") =>
        \A i \in 1..Len(srcFiles) :
            (isSymbolicLink(srcFiles[i]) /\ srcFiles[i] \notin DOMAIN rewrites) =>
                \E it \in folder :
                    /\ it.kind = "symlink"
                    /\ it.dest = DirDestPath(aliases, basePath, srcFiles[i], userNamespace)

(***************************************************************************)
(* C5, as stated. Archive mode: the entry file is generated exactly when   *)
(* the unique-entry-file flag is set, or runtimeAPIVersion is 2, or a      *)
(* conflict was detected, or the main file is named like the entry file.   *)
(***************************************************************************)
C5_EntryWhenMainNamedLikeEntry ==
    (IsZip /\ pc # "start") =>
        (EntryAppended <=>
            \/ featureFlags.zisi_unique_entry_file
            \/ runtimeAPIVersion = 2
            \/ hasEntryFileConflict
            \/ isNamedLikeEntryFile(mainFile, featureFlags, runtimeAPIVersion))

(***************************************************************************)
(* C5, amended. Archive mode: the entry file is skipped exactly when the   *)
(* unique-entry-file flag is not set, runtimeAPIVersion is not 2, no       *)
(* conflict was detected and the main file is named like the entry file;   *)
(* in every other case it is generated and appended, once.                 *)
(***************************************************************************)
C5_EntryUnlessMainNamedLikeEntry ==
    (IsZip /\ pc # "start") =>
        /\ EntryAppended <=>
            \/ featureFlags.zisi_unique_entry_file
            \/ runtimeAPIVersion = 2
            \/ hasEntryFileConflict
            \/ ~isNamedLikeEntryFile(mainFile, featureFlags, runtimeAPIVersion)
        /\ Cardinality({k \in 1..Len(archive) : archive[k].role = "entry"}) <= 1

\* An archive finished without an entry file, its main file being named like one.
C5_Witness ==
    /\ IsZip
    /\ pc = "done"
    /\ ~EntryAppended
    /\ isNamedLikeEntryFile(mainFile, featureFlags, runtimeAPIVersion)
    /\ mainFile \in Range(srcFiles)

(***************************************************************************)
(* C6. With runtimeAPIVersion 2 the finished artifact of either mode holds *)
(* exactly one item at the reserved bootstrap name and exactly one entry   *)
(* file.                                                                   *)
(***************************************************************************)
AtBootstrapName(it) == it.dest = <<BOOTSTRAP_FILE_NAME>>

IsEntry(it) == it.role = "entry"

C6_OneBootstrapOneEntry ==
    (runtimeAPIVersion = 2 /\ pc = "done") =>
        /\ Count(AtBootstrapName) = 1
        /\ Count(IsEntry) = 1

(***************************************************************************)
(* C7. Directory mode: while a symlink is being created or has been        *)
(* created, every write of the copy pass (file copy or rewrite write, for  *)
(* each srcFiles element) has completed and none is in flight.             *)
(***************************************************************************)
CopyPassWritten(i) ==
    \E it \in folder : it.role = "src" /\ it.idx = i /\ it.kind \in {"content", "file"}

NeedsCopyPassWrite(i) ==
    srcFiles[i] \in DOMAIN rewrites \/ ~isSymbolicLink(srcFiles[i])

SymlinkUnderWay ==
    \/ \E j \in DOMAIN linkInflight : linkInflight[j] = "symlink"
    \/ \E it \in folder : it.kind = "symlink"

C7_SymlinksAfterCopies ==
    SymlinkUnderWay =>
        /\ DOMAIN inflight = {}
        /\ started = Len(srcFiles)
        /\ \A i \in 1..Len(srcFiles) : NeedsCopyPassWrite(i) => CopyPassWritten(i)

\* A symlink was created in a folder that holds a copied file and a rewritten one.
C7_Witness ==
    /\ \E it \in folder : it.kind = "symlink"
    /\ \E it \in folder : it.role = "src" /\ it.kind = "file"
    /\ \E it \in folder : it.role = "src" /\ it.kind = "content"

(***************************************************************************)
(* C8. A source file listed in rewrites is packaged, in both modes, with   *)
(* the rewrite content at its destination; its on-disk content is never    *)
(* copied, appended or linked for it.                                      *)
(***************************************************************************)
RewrittenItem(it, srcFile, idx) ==
    /\ it.role = "src"
    /\ it.idx = idx
    /\ it.src = srcFile
    /\ it.kind = "content"
    /\ it.data = rewrites[srcFile]
    /\ it.dest = normalizeFilePath(basePath, GetOr(aliases, srcFile, srcFile),
                                   userNamespace)

C8_RewritePrecedence ==
    /\ \A it \in Members :
          (it.role = "src" /\ it.src \in DOMAIN rewrites) =>
              it.kind = "content" /\ it.data = rewrites[it.src]
    /\ \A i \in DOMAIN inflight :
          srcFiles[i] \in DOMAIN rewrites => inflight[i] = "write"
    /\ \A e \in Range(symlinks) \cup Range(linkList) : e[3] \notin DOMAIN rewrites
    /\ (pc = "done" /\ IsZip) =>
          \A i \in 1..Len(deduplicatedSrcFiles) :
              deduplicatedSrcFiles[i] \in DOMAIN rewrites =>
                  \E it \in Members : RewrittenItem(it, deduplicatedSrcFiles[i], i)
    /\ (pc = "done" /\ ~IsZip) =>
          \A i \in 1..Len(srcFiles) :
              srcFiles[i] \in DOMAIN rewrites =>
                  \E it \in Members : RewrittenItem(it, srcFiles[i], i)

\* A finished directory holding the rewrite content of a rewritten symlink and
\* the copy of a file that is not rewritten.
C8_Witness ==
    /\ pc = "done"
    /\ ~IsZip
    /\ \E it \in folder : it.src = Link1 /\ it.kind = "content" /\ it.data = "rewritten"
    /\ \E it \in folder : it.kind = "file"

(***************************************************************************)
(* C9. After a conflict was detected every source file is written below    *)
(* the user sub-directory, the entry file and the telemetry file are at    *)
(* the artifact root, and no source file is at the entry file's path.      *)
(***************************************************************************)
C9_ConflictMovesUserFiles ==
    hasEntryFileConflict =>
        \A it \in Members :
            /\ it.role = "src" =>
                  /\ Len(it.dest) >= 2
                  /\ it.dest[1] = DEFAULT_USER_SUBDIRECTORY
                  /\ it.dest # <<getEntryFileName(featureFlags, runtimeAPIVersion)>>
            /\ it.role = "entry" =>
                  it.dest = <<getEntryFileName(featureFlags, runtimeAPIVersion)>>
            /\ it.role = "telemetry" => it.dest = <<TELEMETRY_FILE_NAME>>

\* A finished directory of a request with a conflict: entry, telemetry and a copy.
C9_Witness ==
    /\ hasEntryFileConflict
    /\ pc = "done"
    /\ ~IsZip
    /\ \E it \in folder : it.role = "entry"
    /\ \E it \in folder : it.role = "telemetry"
    /\ \E it \in folder : it.role = "src" /\ it.kind = "file"

(***************************************************************************)
(* C10. The conflict is decided from the srcFiles the caller passed, the   *)
(* bootstrap module being added only afterwards, and the bootstrap module  *)
(* is written at the reserved name in the artifact root, not below the     *)
(* user sub-directory, also after a conflict was detected.                 *)
(***************************************************************************)
C10_BootstrapAtRoot ==
    /\ pc # "start" =>
          hasEntryFileConflict =
              conflictsWithEntryFile(original.srcFiles, featureFlags, mainFile,
                                     runtimeAPIVersion)
    /\ \A it \in Members :
          (it.role = "src" /\ it.src = v2APIPath) => it.dest = <<BOOTSTRAP_FILE_NAME>>

(***************************************************************************)
(* C11. A request is not mutated by packaging: at every moment of a        *)
(* createDirectory or createZipArchive run, and after it, the caller's     *)
(* srcFiles list and aliases map hold what they held before the run, for   *)
(* every runtimeAPIVersion.                                                *)
(***************************************************************************)
C11_RequestNotMutated ==
    /\ srcFiles = original.srcFiles
    /\ aliases = original.aliases

(***************************************************************************)
(* C12. No file-system operation (lstat, readlink, read, copy) is made on  *)
(* a source path that is listed in rewrites, in either mode.               *)
(***************************************************************************)
C12_RewrittenNeverTouched ==
    \A op \in fsOps : op[2] \notin DOMAIN rewrites

\* The index of the first occurrence of p in list.
FirstOccurrence(list, p) ==
    CHOOSE i \in 1..Len(list) : list[i] = p /\ \A j \in 1..(i - 1) : list[j] # p

(***************************************************************************)
(* C13. In archive mode srcFiles is treated as a set: once the members     *)
(* are appended, every path of srcFiles, however often it occurs, has      *)
(* exactly one archive member, and the members are in the order of the     *)
(* first occurrences of their paths in srcFiles.                           *)
(***************************************************************************)
C13_OneMemberAtFirstOccurrence ==
    (IsZip /\ pc \in {"zip_end", "done"}) =>
        /\ \A k \in 1..Len(SrcMembers) : SrcMembers[k].src \in Range(srcFiles)
        /\ \A p \in Range(srcFiles) :
              Cardinality({k \in 1..Len(SrcMembers) : SrcMembers[k].src = p}) = 1
        /\ \A k, l \in 1..Len(SrcMembers) :
              k < l => FirstOccurrence(srcFiles, SrcMembers[k].src)
                         < FirstOccurrence(srcFiles, SrcMembers[l].src)

\* An archive finalized from a list where a path occurs before and after
\* another path.
C13_Witness ==
    /\ IsZip
    /\ pc = "done"
    /\ \E i, j, k \in 1..Len(srcFiles) :
          i < j /\ j < k /\ srcFiles[i] = srcFiles[k] /\ srcFiles[j] # srcFiles[i]
    /\ Len(SrcMembers) = Cardinality(Range(srcFiles))

(***************************************************************************)
(* C14. A failed step aborts the packaging operation: once the write of    *)
(* the entry or telemetry file, an lstat, a readlink, a copy, a rewrite    *)
(* write, a symlink creation (or rm, mkdir, the finalization) has failed,  *)
(* the build is rejected and stays so, no result is returned, and in       *)
(* archive mode a failed lstat leaves the archive without any source       *)
(* member and never finalized.                                             *)
(***************************************************************************)
C14_FailedStepAborts ==
    failure # "" =>
        /\ pc = "rejected"
        /\ result = NoResult
        /\ (IsZip /\ failure = "lstat") => SrcMembers = <<>>

\* A copy failed in the copy pass after the entry file was written; the
\* other mappers have run to their end.
C14_Witness ==
    /\ ~IsZip
    /\ failure = "copy"
    /\ pc = "rejected"
    /\ inflight = NoInflight
    /\ started < Len(srcFiles)
    /\ \E it \in folder : it.role = "entry"
    /\ \E it \in folder : it.role = "src"

\* endZip has been called: the archive is being finalized or is finalized.
Finalizing == IsZip /\ pc \in {"zip_end", "done"}

(***************************************************************************)
(* C15. In archive mode the archive is finalized only after every member   *)
(* has been appended (the entry file when one is needed, the telemetry     *)
(* file when the flag is set, and one member per deduplicated source       *)
(* file), and the result is returned only after the finalization has       *)
(* completed.                                                              *)
(***************************************************************************)
C15_FinalizeAfterAllMembers ==
    /\ Finalizing =>
          /\ needsEntryFile => \E k \in 1..Len(archive) : archive[k].role = "entry"
          /\ featureFlags.zisi_add_instrumentation_loader =>
                \E k \in 1..Len(archive) : archive[k].role = "telemetry"
          /\ \A i \in 1..Len(deduplicatedSrcFiles) :
                \E k \in 1..Len(SrcMembers) : SrcMembers[k].src = deduplicatedSrcFiles[i]
          /\ \A p \in Range(srcFiles) :
                \E k \in 1..Len(SrcMembers) : SrcMembers[k].src = p
    /\ (IsZip /\ result.returned) =>
          /\ pc = "done"
          /\ result.entryFilename = entryFilename

\* A finalized archive with an entry file, the telemetry file and two source
\* members, its result returned.
C15_Witness ==
    /\ IsZip
    /\ pc = "done"
    /\ result.returned
    /\ Len(SrcMembers) >= 2
    /\ Len(archive) = Len(SrcMembers) + 2

(***************************************************************************)
(* C16. In archive mode no source-file member is appended while an lstat   *)
(* of the build is in flight: when the archive holds a source member, the  *)
(* lstat of every deduplicated source file has completed, and the members  *)
(* of all of them are there (they are appended in one step, without a      *)
(* suspension point in between).                                           *)
(***************************************************************************)
C16_NoAppendWhileStatInFlight ==
    (IsZip /\ Len(SrcMembers) > 0) =>
        /\ StatInFlight = {}
        /\ statFailed = {}
        /\ Range(statOrder) = 1..Len(deduplicatedSrcFiles)
        /\ Len(SrcMembers) = Len(deduplicatedSrcFiles)

\* Two lstat calls completed in the reverse order, then the appends.
C16_Witness ==
    /\ IsZip
    /\ pc = "zip_end"
    /\ Len(SrcMembers) >= 2
    /\ statOrder[1] > statOrder[2]

(***************************************************************************)
(* C17. In directory mode the number of source-file resolutions in flight  *)
(* never exceeds the pool size, in the copy pass and in the symlink pass   *)
(* alike, and the pool size is at least 2 for every CPU count, 0 included. *)
(***************************************************************************)
C17_PoolBounded ==
    /\ Cardinality(DOMAIN inflight) <= COPY_FILE_CONCURRENCY
    /\ Cardinality(DOMAIN linkInflight) <= COPY_FILE_CONCURRENCY
    /\ COPY_FILE_CONCURRENCY >= 2
    /\ \A cpus \in 0..MaxCpus : CopyFileConcurrency(cpus) >= 2

\* The symlink pass with a full pool and an entry waiting, after a copy pass
\* that had more elements than the pool.
C17_Witness ==
    /\ pc = "link"
    /\ Len(srcFiles) > COPY_FILE_CONCURRENCY
    /\ Cardinality(DOMAIN linkInflight) = COPY_FILE_CONCURRENCY
    /\ linkStarted < Len(linkList)

(***************************************************************************)
(* C18. In directory mode the function folder is deleted recursively and   *)
(* recreated before anything is written: no write is in flight, and        *)
(* nothing this build wrote is in the folder, while a file of an earlier   *)
(* build is still there, and after a successful build the folder holds     *)
(* only what this build wrote.                                             *)
(***************************************************************************)
C18_FolderRebuilt ==
    ~IsZip =>
        /\ (\E it \in folder : it.role = "stale") =>
              /\ pending = {}
              /\ inflight = NoInflight
              /\ linkInflight = NoInflight
              /\ \A it \in folder : it.role = "stale"
        /\ pc = "done" =>
              \A it \in folder : it.role \in {"entry", "telemetry", "src"}

\* A successful build into a folder that held a file of an earlier build.
C18_Witness ==
    /\ ~IsZip
    /\ pc = "done"
    /\ result.returned
    /\ StaleItem \notin folder
    /\ \E it \in folder : it.role = "entry"
    /\ \E it \in folder : it.role = "src"

(***************************************************************************)
(* C19. In archive mode the entry file, when one is needed, is the first   *)
(* member of the archive; the telemetry file is a member if and only if    *)
(* the telemetry flag is set, and it then comes right after the entry      *)
(* file (first when there is none) and before every source-file member.    *)
(***************************************************************************)
C19_GeneratedMembersFirst ==
    (IsZip /\ pc # "start") =>
        LET telemetryAt == {k \in 1..Len(archive) : archive[k].role = "telemetry"}
            entryAt == {k \in 1..Len(archive) : archive[k].role = "entry"}
        IN /\ needsEntryFile => entryAt = {1}
           /\ ~needsEntryFile => entryAt = {}
           /\ (telemetryAt # {}) <=> featureFlags.zisi_add_instrumentation_loader
           /\ telemetryAt \subseteq {Cardinality(entryAt) + 1}
           /\ \A k \in 1..Len(archive) :
                 archive[k].role = "src" =>
                     k > Cardinality(entryAt) + Cardinality(telemetryAt)

\* An archive with the entry file, the telemetry file and a source member.
C19_Witness ==
    /\ IsZip
    /\ pc = "done"
    /\ Len(archive) >= 3
    /\ archive[1].role = "entry"
    /\ archive[2].role = "telemetry"
    /\ archive[3].role = "src"

\* Line 109: join(destFolder, basename(filename, extension)).
functionFolder == <<"dest", "func">>

(***************************************************************************)
(* C20. In directory mode a recreated symbolic link points at the final    *)
(* in-artifact location of its target when the target is one of the        *)
(* packaged files, and at the original target path otherwise.              *)
(***************************************************************************)
C20_SymlinkPointsIntoArtifact ==
    ~IsZip =>
        \A it \in folder :
            it.kind = "symlink" =>
                LET target == readLink(it.src)
                IN IF target \in Range(srcFiles)
                   THEN it.target = functionFolder
                                      \o DirDestPath(aliases, basePath, target, userNamespace)
                   ELSE it.target = target

\* The write operations in flight in directory mode, each with the path it
\* writes below the function folder: the entry-file writes, and the copies
\* and rewrite writes of the mappers of the first pMap.
InFlightWrites ==
    {<<w, (IF w = "entry" THEN EntryItem(featureFlags, runtimeAPIVersion)
           ELSE TelemetryItem).dest>> : w \in pending}
    \cup {<<i, DirDestPath(aliases, basePath, srcFiles[i], userNamespace)>> :
             i \in {k \in DOMAIN inflight : inflight[k] \in {"copy", "write"}}}

(***************************************************************************)
(* C21. In directory mode no two write operations (file copy, rewrite      *)
(* write, entry or telemetry write) that are in flight at the same moment  *)
(* write the same destination path, whatever the srcFiles list, lists      *)
(* with duplicate paths included.                                          *)
(***************************************************************************)
C21_NoConcurrentWritesToOnePath ==
    ~IsZip =>
        \A a, b \in InFlightWrites : a[2] = b[2] => a = b

\* No operation of the invocation is in flight and no mapper is waiting.
NothingInFlight ==
    /\ pending = {}
    /\ inflight = NoInflight
    /\ linkInflight = NoInflight
    /\ IsZip => StatInFlight = {}

\* The invocation returned its result or rejected.
Settled ==
    \/ pc = "done" /\ result.returned
    \/ pc = "rejected" /\ failure # "" /\ ~result.returned

(***************************************************************************)
(* C22. Provided every file-system and archive operation eventually        *)
(* completes, successfully or with an error, every createDirectory and     *)
(* createZipArchive invocation eventually either returns its result or     *)
(* rejects, and stays so, with no operation left in flight and no worker   *)
(* of the pool waiting.                                                    *)
(***************************************************************************)
C22_EventuallySettles == <>[](Settled /\ NothingInFlight)

\* A directory build that returned although it had more source files than
\* the pool has workers, and symbolic links to create.
C22_Witness ==
    /\ ~IsZip
    /\ pc = "done"
    /\ result.returned
    /\ Len(srcFiles) > COPY_FILE_CONCURRENCY
    /\ Len(linkList) >= 1
    /\ NothingInFlight

====
